---- MODULE Spec2Model ----
(***************************************************************************)
(* Model of the detection evaluation engine (src/src/lib/metrics.ts) and   *)
(* of the batch evaluation orchestrator, the useEvaluationRunner hook      *)
(* (src/unnamed/part_004) as driven by the evaluation dashboard page       *)
(* (src/unnamed/part_016).                                                 *)
(*                                                                         *)
(* SpecLib applies the library functions to arguments drawn from bounded   *)
(* sets.  Spec is the hook: every invocation of runEvaluation is a run     *)
(* with its own locals (the values its closure captured), the detection    *)
(* calls of a group are promises that settle in any order, and the user    *)
(* operates whatever the page renders for the current step.  The saved     *)
(* evaluations (history, save, load, export) are outside the model.        *)
(***************************************************************************)
EXTENDS Integers, Sequences, FiniteSets, TLC

(***************************************************************************)
(* Bounds of the model.                                                    *)
(***************************************************************************)
MaxPreds == 3
MaxGts == 2
MaxImages == 5
MaxRuns == 2

(***************************************************************************)
(* Program constants.                                                      *)
(***************************************************************************)
BATCH_SIZE == 4
RETRY_ATTEMPTS == 2
DefaultThreshold == 5

(***************************************************************************)
(* Numbers.  JavaScript numbers that are ratios of integers are kept as    *)
(* reduced fractions <<n, d>> with d > 0; a division by zero gives NaN.    *)
(* Confidence and threshold values are in tenths (5 is 0.5).  The code's   *)
(* Array.prototype.filter is SelectSeq.                                    *)
(***************************************************************************)
NaN == <<0, 0>>
Zero == <<0, 1>>
One == <<1, 1>>

Max(a, b) == IF a >= b THEN a ELSE b
Min(a, b) == IF a <= b THEN a ELSE b

RECURSIVE GCD(_, _)
GCD(a, b) == IF b = 0 THEN a ELSE GCD(b, a % b)

Norm(n, d) == IF d = 0 THEN NaN
              ELSE IF n = 0 THEN Zero
              ELSE LET g == GCD(n, d) IN <<n \div g, d \div g>>

RAdd(p, q) == IF p = NaN \/ q = NaN THEN NaN
              ELSE Norm(p[1] * q[2] + q[1] * p[2], p[2] * q[2])
RMul(p, q) == IF p = NaN \/ q = NaN THEN NaN
              ELSE Norm(p[1] * q[1], p[2] * q[2])
RDiv(p, q) == IF p = NaN \/ q = NaN THEN NaN
              ELSE Norm(p[1] * q[2], p[2] * q[1])
RGt(p, q) == p[1] * q[2] > q[1] * p[2]
RGeq(p, q) == p[1] * q[2] >= q[1] * p[2]
Tenths(t) == Norm(t, 10)

RECURSIVE RSum(_)
RSum(s) == IF s = <<>> THEN Zero ELSE RAdd(s[1], RSum(Tail(s)))

RECURSIVE Sum(_)
Sum(s) == IF s = <<>> THEN 0 ELSE s[1] + Sum(Tail(s))

RECURSIVE Flat(_)
Flat(ss) == IF ss = <<>> THEN <<>> ELSE ss[1] \o Flat(Tail(ss))

RECURSIVE SeqsUpTo(_, _)
SeqsUpTo(S, n) ==
  IF n = 0 THEN {<<>>}
  ELSE LET shorter == SeqsUpTo(S, n - 1)
       IN shorter \cup {Append(s, x) : s \in {t \in shorter : Len(t) = n - 1}, x \in S}

(***************************************************************************)
(* Boxes.  A prediction without a confidence has confidence Absent.        *)
(***************************************************************************)
Absent == -1
NoRef == 0

Box(x, y, w, h, c) == [x |-> x, y |-> y, width |-> w, height |-> h, class |-> c]
PBox(x, y, w, h, c, conf) ==
  [x |-> x, y |-> y, width |-> w, height |-> h, class |-> c, confidence |-> conf]

\* (p.confidence || 0)
ConfOf(p) == IF p.confidence = Absent THEN 0 ELSE p.confidence

(***************************************************************************)
(* calculateIoU.  The corners x -+ width/2 are kept doubled (2x -+ width), *)
(* so every area below is four times the code's; the ratio is the code's.  *)
(***************************************************************************)
calculateIoU(box1, box2) ==
  LET box1X1 == 2 * box1.x - box1.width
      box1Y1 == 2 * box1.y - box1.height
      box1X2 == 2 * box1.x + box1.width
      box1Y2 == 2 * box1.y + box1.height
      box2X1 == 2 * box2.x - box2.width
      box2Y1 == 2 * box2.y - box2.height
      box2X2 == 2 * box2.x + box2.width
      box2Y2 == 2 * box2.y + box2.height
      intersectionWidth == Max(0, Min(box1X2, box2X2) - Max(box1X1, box2X1))
      intersectionHeight == Max(0, Min(box1Y2, box2Y2) - Max(box1Y1, box2Y1))
      intersectionArea == intersectionWidth * intersectionHeight
      box1Area == 4 * box1.width * box1.height
      box2Area == 4 * box2.width * box2.height
      unionArea == box1Area + box2Area - intersectionArea
  IN IF unionArea = 0 THEN Zero ELSE Norm(intersectionArea, unionArea)

(***************************************************************************)
(* matchPredictions.                                                       *)
(***************************************************************************)
\* [...predictions].sort((a, b) => (b.confidence || 0) - (a.confidence || 0)):
\* a stable sort, descending.
\* the comparator leaves a before b unless b's confidence is higher
KeepsOrderStrict(a, b) == ConfOf(a) > ConfOf(b)
KeepsOrder(a, b) == ConfOf(a) >= ConfOf(b)

RECURSIVE InsertByConfidence(_, _)
InsertByConfidence(sorted, p) ==
  IF sorted = <<>> THEN <<p>>
  ELSE IF KeepsOrder(sorted[1], p)
       THEN <<sorted[1]>> \o InsertByConfidence(Tail(sorted), p)
       ELSE <<p>> \o sorted

RECURSIVE SortByConfidence(_, _)
SortByConfidence(sorted, rest) ==
  IF rest = <<>> THEN sorted
  ELSE SortByConfidence(InsertByConfidence(sorted, rest[1]), Tail(rest))

sortedPredictions(predictions) == SortByConfidence(<<>>, predictions)

\* if (usedGroundTruths.has(i)) continue;
SkipsUsedNever(usedGroundTruths, i) == FALSE
SkipsUsed(usedGroundTruths, i) == i \in usedGroundTruths

\* The scan of one prediction over the ground truths from index i on;
\* best is [iou, index], index NoRef while bestMatch is null.
RECURSIVE FindBest(_, _, _, _, _)
FindBest(prediction, groundTruths, usedGroundTruths, i, best) ==
  IF i > Len(groundTruths) THEN best
  ELSE IF SkipsUsed(usedGroundTruths, i)
       THEN FindBest(prediction, groundTruths, usedGroundTruths, i + 1, best)
  ELSE IF groundTruths[i].class # prediction.class
       THEN FindBest(prediction, groundTruths, usedGroundTruths, i + 1, best)
  ELSE LET iou == calculateIoU(prediction, groundTruths[i])
       IN IF RGt(iou, best.iou)
          THEN FindBest(prediction, groundTruths, usedGroundTruths, i + 1,
                        [iou |-> iou, index |-> i])
          ELSE FindBest(prediction, groundTruths, usedGroundTruths, i + 1, best)

\* bestIoU >= iouThreshold
MeetsThresholdReversed(iou, iouThreshold) == RGeq(Tenths(iouThreshold), iou)
MeetsThreshold(iou, iouThreshold) == RGeq(iou, Tenths(iouThreshold))

\* The loop over the sorted predictions; a match's groundTruth is the
\* position in groundTruths of the box it references, NoRef for null.
RECURSIVE MatchLoop(_, _, _, _, _)
MatchLoop(sorted, groundTruths, iouThreshold, usedGroundTruths, matches) ==
  IF sorted = <<>> THEN matches
  ELSE LET prediction == sorted[1]
           best == FindBest(prediction, groundTruths, usedGroundTruths, 1,
                            [iou |-> Zero, index |-> NoRef])
           isCorrect == MeetsThreshold(best.iou, iouThreshold) /\ best.index # NoRef
           match == [prediction |-> prediction,
                     groundTruth |-> IF isCorrect THEN best.index ELSE NoRef,
                     iou |-> best.iou,
                     isCorrect |-> isCorrect]
       IN MatchLoop(Tail(sorted), groundTruths, iouThreshold,
                    IF isCorrect THEN usedGroundTruths \cup {best.index}
                    ELSE usedGroundTruths,
                    Append(matches, match))

matchPredictions(predictions, groundTruths, iouThreshold) ==
  MatchLoop(sortedPredictions(predictions), groundTruths, iouThreshold, {}, <<>>)

(***************************************************************************)
(* calculateClassMetrics.                                                  *)
(***************************************************************************)
\* a / b behind the code's "b > 0 ? a / b : 0" guard
GuardedRatioOne(a, b) == IF b > 0 THEN Norm(a, b) ELSE One
GuardedRatio(a, b) == IF b > 0 THEN Norm(a, b) ELSE Zero

\* precision + recall > 0 ? (2 * precision * recall) / (precision + recall) : 0
F1Of(precision, recall) ==
  IF RGt(RAdd(precision, recall), Zero)
  THEN RDiv(RMul(<<2, 1>>, RMul(precision, recall)), RAdd(precision, recall))
  ELSE Zero

\* classGroundTruths.length - truePositives
FalseNegativesOfAll(classGroundTruths, truePositives) == Len(classGroundTruths)
FalseNegativesOf(classGroundTruths, truePositives) ==
  Len(classGroundTruths) - truePositives

\* from the matches of a class to its metrics (the counts, the ratios and
\* the returned object)
ClassMetricsOf(className, classGroundTruths, matches) ==
  LET IsCorrect(m) == m.isCorrect
      IsWrong(m) == ~m.isCorrect
      truePositives == Len(SelectSeq(matches, IsCorrect))
      falsePositives == Len(SelectSeq(matches, IsWrong))
      falseNegatives == FalseNegativesOf(classGroundTruths, truePositives)
      precision == GuardedRatio(truePositives, truePositives + falsePositives)
      recall == GuardedRatio(truePositives, truePositives + falseNegatives)
  IN [className |-> className,
      truePositives |-> truePositives,
      falsePositives |-> falsePositives,
      falseNegatives |-> falseNegatives,
      precision |-> precision,
      recall |-> recall,
      f1Score |-> F1Of(precision, recall),
      averageIoU |-> IF Len(matches) > 0
                     THEN RDiv(RSum([k \in 1..Len(matches) |-> matches[k].iou]),
                               <<Len(matches), 1>>)
                     ELSE Zero,
      sampleCount |-> Len(classGroundTruths)]

calculateClassMetrics(predictions, groundTruths, className, iouThreshold) ==
  LET IsClass(b) == b.class = className
      classPredictions == SelectSeq(predictions, IsClass)
      classGroundTruths == SelectSeq(groundTruths, IsClass)
  IN ClassMetricsOf(className, classGroundTruths,
                    matchPredictions(classPredictions, classGroundTruths, iouThreshold))

(***************************************************************************)
(* buildConfusionMatrix.                                                   *)
(***************************************************************************)
\* classNames.indexOf(c), 1-based, 0 when absent
RECURSIVE IndexOfFrom(_, _, _)
IndexOfFrom(classNames, c, k) ==
  IF k > Len(classNames) THEN 0
  ELSE IF classNames[k] = c THEN k
  ELSE IndexOfFrom(classNames, c, k + 1)

IndexOf(classNames, c) == IndexOfFrom(classNames, c, 1)

\* actualIdx = classNames.indexOf(match.groundTruth.class)
ActualIdxFirst(classNames, groundTruths, match) == 1
ActualIdx(classNames, groundTruths, match) ==
  IndexOf(classNames, groundTruths[match.groundTruth].class)

buildConfusionMatrix(predictions, groundTruths, classNames, iouThreshold) ==
  LET n == Len(classNames)
      matches == matchPredictions(predictions, groundTruths, iouThreshold)
      Counts(a, p) ==
        Cardinality({k \in 1..Len(matches) :
          /\ matches[k].isCorrect
          /\ matches[k].groundTruth # NoRef
          /\ ActualIdx(classNames, groundTruths, matches[k]) = a
          /\ IndexOf(classNames, matches[k].prediction.class) = p})
  IN [a \in 1..n |-> [p \in 1..n |-> Counts(a, p)]]

(***************************************************************************)
(* calculateOverallMetrics.                                                *)
(***************************************************************************)
\* Array.from(new Set([...])): first occurrences, in order
RECURSIVE Unique(_, _)
Unique(seen, s) ==
  IF s = <<>> THEN seen
  ELSE IF IndexOf(seen, s[1]) # 0 THEN Unique(seen, Tail(s))
  ELSE Unique(Append(seen, s[1]), Tail(s))

ClassNamesOf(predictions, groundTruths) ==
  Unique(<<>>, [k \in 1..Len(predictions) |-> predictions[k].class]
               \o [k \in 1..Len(groundTruths) |-> groundTruths[k].class])

\* from the per-class metrics to the overall metrics (the totals, the
\* ratios, the confusion matrix and the returned object)
OverallMetricsOf(predictions, groundTruths, iouThreshold, classNames, classMetrics) ==
  LET totalTP == Sum([k \in 1..Len(classMetrics) |-> classMetrics[k].truePositives])
      totalFP == Sum([k \in 1..Len(classMetrics) |-> classMetrics[k].falsePositives])
      totalFN == Sum([k \in 1..Len(classMetrics) |-> classMetrics[k].falseNegatives])
      precision == GuardedRatio(totalTP, totalTP + totalFP)
      recall == GuardedRatio(totalTP, totalTP + totalFN)
  IN [precision |-> precision,
      recall |-> recall,
      f1Score |-> F1Of(precision, recall),
      mAP |-> IF Len(classMetrics) > 0
              THEN RDiv(RSum([k \in 1..Len(classMetrics) |-> classMetrics[k].precision]),
                        <<Len(classMetrics), 1>>)
              ELSE Zero,
      totalPredictions |-> Len(predictions),
      totalGroundTruths |-> Len(groundTruths),
      classMetrics |-> classMetrics,
      confusionMatrix |->
        buildConfusionMatrix(predictions, groundTruths, classNames, iouThreshold),
      classNames |-> classNames]

calculateOverallMetrics(predictions, groundTruths, iouThreshold) ==
  LET classNames == ClassNamesOf(predictions, groundTruths)
  IN OverallMetricsOf(predictions, groundTruths, iouThreshold, classNames,
       [k \in 1..Len(classNames) |->
          calculateClassMetrics(predictions, groundTruths, classNames[k], iouThreshold)])

(***************************************************************************)
(* calculateMetricsAtThresholds.                                           *)
(***************************************************************************)
\* thresholds: number[] = [0.1, 0.2, 0.3, 0.4, 0.5, 0.6, 0.7, 0.8, 0.9]
DefaultSweepThresholds == <<1, 2, 3, 4, 5, 6, 7, 8, 9>>

\* (p.confidence || 0) >= threshold
SurvivesSweepBelow(p, threshold) == ConfOf(p) <= threshold
SurvivesSweep(p, threshold) == ConfOf(p) >= threshold

\* the object returned for one threshold
SweepPoint(threshold, metrics) ==
  [threshold |-> threshold, precision |-> metrics.precision,
   recall |-> metrics.recall, f1Score |-> metrics.f1Score]

calculateMetricsAtThresholds(predictions, groundTruths, thresholds, iouThreshold) ==
  [k \in 1..Len(thresholds) |->
     LET Kept(p) == SurvivesSweep(p, thresholds[k])
         filteredPredictions == SelectSeq(predictions, Kept)
     IN SweepPoint(thresholds[k],
          calculateOverallMetrics(filteredPredictions, groundTruths, iouThreshold))]

(***************************************************************************)
(* findOptimalThreshold: the sweep point of the highest F1 score.          *)
(***************************************************************************)
\* let bestThreshold = 0.5; let bestF1 = 0;
InitialBest == [threshold |-> 5, f1Score |-> Zero]

\* if (f1Score > bestF1)
BetterF1OrEqual(f1Score, bestF1) == RGeq(f1Score, bestF1)
BetterF1(f1Score, bestF1) == RGt(f1Score, bestF1)

\* for (const { threshold, f1Score } of thresholdMetrics), from point k on
RECURSIVE FindOptimal(_, _, _)
FindOptimal(thresholdMetrics, k, best) ==
  IF k > Len(thresholdMetrics)
  THEN best
  ELSE FindOptimal(thresholdMetrics, k + 1,
         IF BetterF1(thresholdMetrics[k].f1Score, best.f1Score)
         THEN [threshold |-> thresholdMetrics[k].threshold,
               f1Score |-> thresholdMetrics[k].f1Score]
         ELSE best)

findOptimalThreshold(predictions, groundTruths, iouThreshold) ==
  FindOptimal(calculateMetricsAtThresholds(predictions, groundTruths,
                                           DefaultSweepThresholds, iouThreshold),
              1, InitialBest)

(***************************************************************************)
(* State.  The hook's React state and refs, the runs of runEvaluation in   *)
(* progress with their local variables, and the inputs and results of the  *)
(* library calls checked on their own.                                     *)
(***************************************************************************)
VARIABLES
  step,                 \* useState<EvaluationStep>
  images,               \* useState<File[]>: the files, by identity
  groundTruths,         \* useState<GroundTruthBox[][]>
  predictions,          \* useState<BoundingBox[][]>
  currentMetrics,       \* useState<OverallMetrics | null>
  confidenceThreshold,  \* useState(0.5), in tenths
  iouThreshold,         \* useState(0.5), in tenths
  processingStatus,     \* useState<ProcessingStatus>
  error,                \* useState<string | null>
  abortController,      \* useRef<AbortController | null>: the controller's owner
  aborted,              \* the controllers whose signal is aborted
  runs,                 \* the invocations of runEvaluation and their locals
  lastRun,              \* history: the inputs of the run whose results are held
  libPredictions,       \* library call: predictions argument
  libGroundTruths,      \* library call: groundTruths argument
  libIouThreshold,      \* library call: iouThreshold argument
  libDone,              \* library call: the functions applied so far
  libMatches,           \* library call: result of matchPredictions
  libIouThresholdAgain, \* library call: iouThreshold of a second matchPredictions
  libMatchesAgain,      \* library call: result of the second matchPredictions
  libMetrics,           \* library call: result of calculateOverallMetrics
  libSweep,             \* library call: result of calculateMetricsAtThresholds
  libOptimal,           \* library call: result of findOptimalThreshold
  libIou,               \* library call: a box and the result of calculateIoU on it
  libSplit              \* library call: how many predictions and ground truths are of image 1

hookVars == <<step, images, groundTruths, predictions, currentMetrics,
              confidenceThreshold, iouThreshold, processingStatus, error,
              abortController, aborted, runs, lastRun>>
libVars == <<libPredictions, libGroundTruths, libIouThreshold, libDone,
             libMatches, libIouThresholdAgain, libMatchesAgain, libMetrics,
             libSweep, libOptimal, libIou,
             libSplit>>

\* the AuthService singleton and the detection requests that use it
VARIABLES
  accessToken,          \* AuthService.accessToken: 0 for null, else the fetch it came from
  tokenFresh,           \* tokenExpiry is set and tokenExpiry > Date.now()
  tokenPromise,         \* AuthService.tokenPromise: 0 for null, else a fetch
  fetches,              \* the calls of fetchToken in flight
  lastFetch,            \* the number of calls of fetchToken so far
  requests              \* the calls of detectObjectsWithRetry and their position

authVars == <<accessToken, tokenFresh, tokenPromise, fetches, lastFetch, requests>>
vars == <<hookVars, libVars, authVars>>

\* the requests and the token fetches the model follows
MaxRequests == 3
MaxFetches == 3

IdleRequest == [pc |-> "idle", retryCount |-> 0, awaits |-> 0, token |-> 0]

AuthInit ==
  /\ accessToken = 0
  /\ tokenFresh = FALSE
  /\ tokenPromise = 0
  /\ fetches = {}
  /\ lastFetch = 0
  /\ requests = [c \in 1..MaxRequests |-> IdleRequest]

\* null, where an object may stand (records compare with records)
Null == [null |-> TRUE]

(***************************************************************************)
(* The library on its own: the arguments are drawn from bounded sets and   *)
(* the functions applied to them.                                          *)
(***************************************************************************)
PredictionBoxes ==
  { PBox(2, 2, 4, 2, "A", 9), PBox(3, 2, 4, 2, "A", 5),
    PBox(2, 2, 4, 2, "B", 5), PBox(2, 2, 4, 2, "A", Absent) }
GroundTruthBoxes ==
  { Box(2, 2, 4, 2, "A"), Box(3, 2, 4, 2, "A"), Box(2, 2, 4, 2, "C"),
    Box(8, 2, 4, 2, "A"), Box(2, 2, 0, 2, "A") }
IouThresholds == {0, 5, 10}

\* null, where a message may stand; a message is a tuple of its parts
NoError == <<>>

initialProcessingStatus ==
  [current |-> 0, total |-> 0, percentage |-> Zero, currentBatch |-> 0,
   totalBatches |-> 0, estimatedTimeRemaining |-> 0, status |-> "idle",
   message |-> <<"">>]

(***************************************************************************)
(* The promises of a group, batch.map((img) => processImageWithRetry(img)).*)
(* They are interchangeable: each resolves to the same empty array and     *)
(* rejects with the transport's message, so the model keeps how many of    *)
(* them are in each state of processImageWithRetry.                        *)
(***************************************************************************)
Request(attempt) == <<"request", attempt>>
Backoff(attempt) == <<"backoff", attempt>>
Fulfilled == <<"fulfilled", 0>>
Rejected == <<"rejected", 0>>
Unsettled ==
  {Request(a) : a \in 1..RETRY_ATTEMPTS} \cup {Backoff(a) : a \in 1..(RETRY_ATTEMPTS - 1)}
PromiseStates == Unsettled \cup {Fulfilled, Rejected}
NoPromises == [s \in PromiseStates |-> 0]
Move(promises, from, to) == [promises EXCEPT ![from] = @ - 1, ![to] = @ + 1]

RECURSIVE CountIn(_, _)
CountIn(promises, S) ==
  IF S = {} THEN 0
  ELSE LET s == CHOOSE x \in S : TRUE
       IN promises[s] + CountIn(promises, S \ {s})

\* the calls of a group that have been started and have not settled
Outstanding(promises) == CountIn(promises, Unsettled)

IdleRun ==
  [pc |-> "idle", images |-> <<>>, actualGroundTruths |-> <<>>,
   confidenceThreshold |-> 0, iouThreshold |-> 0, batchIndex |-> 0,
   allPredictions |-> <<>>, processedCount |-> 0, batchPromises |-> NoPromises,
   outcome |-> "none", reported |-> NoError, exhausted |-> NoError,
   cancelRequested |-> FALSE, startedAfterCancel |-> FALSE, inputsHeld |-> FALSE]

HookInit ==
  /\ step = "upload"
  /\ images = <<>>
  /\ groundTruths = <<>>
  /\ predictions = <<>>
  /\ currentMetrics = Null
  /\ confidenceThreshold = DefaultThreshold
  /\ iouThreshold = DefaultThreshold
  /\ processingStatus = initialProcessingStatus
  /\ error = NoError
  /\ abortController = 0
  /\ aborted = {}
  /\ runs = [r \in 1..MaxRuns |-> IdleRun]
  /\ lastRun = Null

LibInit ==
  /\ libPredictions \in SeqsUpTo(PredictionBoxes, MaxPreds)
  /\ libGroundTruths \in SeqsUpTo(GroundTruthBoxes, MaxGts)
  /\ libIouThreshold \in IouThresholds
  /\ libDone = {}
  /\ libMatches = <<>>
  /\ libIouThresholdAgain = 0
  /\ libMatchesAgain = <<>>
  /\ libMetrics = Null
  /\ libSweep = <<>>
  /\ libOptimal = Null
  /\ libIou = Null
  /\ libSplit = Null

CallMatchPredictions ==
  /\ libDone = {}
  /\ libDone' = libDone \cup {"matchPredictions"}
  /\ libMatches' = matchPredictions(libPredictions, libGroundTruths, libIouThreshold)
  /\ UNCHANGED <<libPredictions, libGroundTruths, libIouThreshold,
                 libIouThresholdAgain, libMatchesAgain, libMetrics, libSweep,
                 libOptimal,
                 libIou, libSplit, hookVars,
                 authVars>>

\* the same arguments matched once more, with any iouThreshold
CallMatchPredictionsAgain ==
  /\ libDone = {"matchPredictions"}
  /\ libDone' = libDone \cup {"matchPredictionsAgain"}
  /\ \E t \in IouThresholds :
       /\ libIouThresholdAgain' = t
       /\ libMatchesAgain' = matchPredictions(libPredictions, libGroundTruths, t)
  /\ UNCHANGED <<libPredictions, libGroundTruths, libIouThreshold, libMatches,
                 libMetrics, libSweep, libOptimal,
                 libIou, libSplit, hookVars,
                 authVars>>

CallCalculateOverallMetrics ==
  /\ libDone = {}
  /\ libDone' = libDone \cup {"calculateOverallMetrics"}
  /\ libMetrics' =
       calculateOverallMetrics(libPredictions, libGroundTruths, libIouThreshold)
  /\ UNCHANGED <<libPredictions, libGroundTruths, libIouThreshold, libMatches,
                 libIouThresholdAgain, libMatchesAgain, libSweep, libOptimal,
                 libIou, libSplit, hookVars,
                 authVars>>

CallCalculateMetricsAtThresholds ==
  /\ libDone = {}
  /\ libDone' = libDone \cup {"calculateMetricsAtThresholds"}
  /\ libSweep' = calculateMetricsAtThresholds(libPredictions, libGroundTruths,
                                               DefaultSweepThresholds, libIouThreshold)
  /\ UNCHANGED <<libPredictions, libGroundTruths, libIouThreshold, libMatches,
                 libIouThresholdAgain, libMatchesAgain, libMetrics, libOptimal,
                 libIou, libSplit, hookVars,
                 authVars>>

CallFindOptimalThreshold ==
  /\ libDone = {}
  /\ libDone' = libDone \cup {"findOptimalThreshold"}
  /\ libSweep' = calculateMetricsAtThresholds(libPredictions, libGroundTruths,
                                               DefaultSweepThresholds, libIouThreshold)
  /\ libOptimal' = findOptimalThreshold(libPredictions, libGroundTruths, libIouThreshold)
  /\ UNCHANGED <<libPredictions, libGroundTruths, libIouThreshold, libMatches,
                 libIouThresholdAgain, libMatchesAgain, libMetrics, libIou, libSplit, hookVars,
                 authVars>>

\* calculateIoU of a box of the call with itself
CallCalculateIoU ==
  /\ libDone = {}
  /\ \E k \in 1..Len(libGroundTruths) :
       libIou' = [box |-> libGroundTruths[k],
                  iou |-> calculateIoU(libGroundTruths[k], libGroundTruths[k])]
  /\ libDone' = libDone \cup {"calculateIoU"}
  /\ UNCHANGED <<libPredictions, libGroundTruths, libIouThreshold, libMatches,
                 libIouThresholdAgain, libMatchesAgain, libMetrics, libSweep,
                 libOptimal, libSplit, hookVars,
                 authVars>>

(***************************************************************************)
(* calculateMetricsInternal.                                               *)
(***************************************************************************)
calculateMetricsInternal(preds, gts, confThreshold, iouThresh) ==
  LET allPreds == Flat(preds)
      allGts == Flat(gts)
      Survives(p) == ConfOf(p) >= confThreshold
      filteredPreds == SelectSeq(allPreds, Survives)
  IN calculateOverallMetrics(filteredPreds, allGts, iouThresh)

\* the first i boxes of s are of image 1, the others of image 2
PerImage(s, i) == <<SubSeq(s, 1, i), SubSeq(s, i + 1, Len(s))>>

\* calculateMetricsInternal on the predictions and ground truths of two images
CallCalculateMetricsInternal ==
  /\ libDone = {}
  /\ libDone' = libDone \cup {"calculateMetricsInternal"}
  /\ \E i \in 0..Len(libPredictions), j \in 0..Len(libGroundTruths) :
       /\ libSplit' = [predictions |-> i, groundTruths |-> j]
       /\ libMetrics' = calculateMetricsInternal(PerImage(libPredictions, i),
                                                  PerImage(libGroundTruths, j),
                                                  DefaultThreshold, libIouThreshold)
  /\ UNCHANGED <<libPredictions, libGroundTruths, libIouThreshold, libMatches,
                 libIouThresholdAgain, libMatchesAgain, libSweep, libOptimal,
                 libIou, hookVars, authVars>>

InitLib == HookInit /\ LibInit /\ AuthInit
NextLib ==
  \/ CallMatchPredictions
  \/ CallMatchPredictionsAgain
  \/ CallCalculateOverallMetrics
  \/ CallCalculateMetricsAtThresholds
  \/ CallFindOptimalThreshold
  \/ CallCalculateIoU
  \/ CallCalculateMetricsInternal
SpecLib == InitLib /\ [][NextLib]_vars

(***************************************************************************)
(* C1: in the result of matchPredictions no two predictions marked correct *)
(* reference the same ground-truth box (by index).                         *)
(***************************************************************************)
C1_OneToOne ==
  "matchPredictions" \in libDone =>
    \A j, k \in 1..Len(libMatches) :
      (j # k /\ libMatches[j].isCorrect /\ libMatches[k].isCorrect)
        => libMatches[j].groundTruth # libMatches[k].groundTruth

\* two predictions are both true positives, bound to different boxes
C1_Witness ==
  /\ "matchPredictions" \in libDone
  /\ \E j, k \in 1..Len(libMatches) :
       j # k /\ libMatches[j].isCorrect /\ libMatches[k].isCorrect

(***************************************************************************)
(* C10: when no class name occurs both among the predictions and among the *)
(* ground truths, calculateOverallMetrics returns precision, recall and F1 *)
(* equal to 0 (never NaN) for every class and overall.                     *)
(***************************************************************************)
NoClassOverlap(preds, gts) ==
  \A j \in 1..Len(preds), k \in 1..Len(gts) : preds[j].class # gts[k].class

AllZero(m) ==
  /\ m.precision = Zero /\ m.recall = Zero /\ m.f1Score = Zero
  /\ \A k \in 1..Len(m.classMetrics) :
       /\ m.classMetrics[k].precision = Zero
       /\ m.classMetrics[k].recall = Zero
       /\ m.classMetrics[k].f1Score = Zero

C10_NoOverlapAllZero ==
  ("calculateOverallMetrics" \in libDone /\ NoClassOverlap(libPredictions, libGroundTruths))
    => AllZero(libMetrics)

\* predictions and ground truths both present, of different classes
C10_Witness ==
  /\ "calculateOverallMetrics" \in libDone
  /\ NoClassOverlap(libPredictions, libGroundTruths)
  /\ Len(libPredictions) > 0 /\ Len(libGroundTruths) > 0
  /\ Len(libMetrics.classMetrics) > 1

(***************************************************************************)
(* The orchestrator: useEvaluationRunner, driven by the dashboard page.    *)
(***************************************************************************)
\* what the user uploads and chooses
ImageCounts == {MaxImages}
GtCounts == {2, MaxImages, MaxImages + 1}
\* the uploaded JSON is any array: its second set holds a box of width 0
GroundTruthOf(k) ==
  IF k % 2 = 1 THEN <<Box(2, 2, 4, 2, "A")>>
  ELSE <<Box(3, 2, 4, 2, "A"), Box(2, 2, 0, 2, "C")>>
GroundTruthFiles == {[k \in 1..n |-> GroundTruthOf(k)] : n \in GtCounts}
ThresholdPairs == {<<1, 3>>, <<DefaultThreshold, DefaultThreshold>>}
\* result.error of a failed detectObjectsAction
TransportErrors == {"API error: 500", ""}
\* elapsed / processedCount, in whole seconds
SecondsPerImage == {0, 1}

\* the page renders UploadStep, ProcessingStep or the results by step
UploadStepShown == step = "upload"
ProcessingStepShown == step = "processing"
ResultsShown == step = "results" /\ currentMetrics # Null

(***************************************************************************)
(* processImageWithRetry.                                                  *)
(***************************************************************************)
\* return [];
DetectionResult == <<>>

\* throw new Error(result.error || "Failed to analyze image")
ThrownMessage(e) == IF e = "" THEN <<"Failed to analyze image">> ELSE <<e>>

\* catch (err): if (attempt < RETRY_ATTEMPTS) wait and retry, else throw err
AfterFailureForever(attempt) ==
  IF attempt < RETRY_ATTEMPTS THEN Backoff(attempt) ELSE Request(1)
AfterFailureNoDelay(attempt) ==
  IF attempt < RETRY_ATTEMPTS THEN Request(attempt + 1) ELSE Rejected
AfterFailure(attempt) ==
  IF attempt < RETRY_ATTEMPTS THEN Backoff(attempt) ELSE Rejected

(***************************************************************************)
(* runEvaluation.                                                          *)
(***************************************************************************)
\* the checks before a run starts: the message of setError, or none
ValidationErrorGuessing(imgs, gts) ==
  IF Len(imgs) = 0 THEN <<"Please upload images first">>
  ELSE IF Len(gts) = 0 THEN <<"Please upload ground truth annotations">>
  ELSE NoError
ValidationError(imgs, gts) ==
  IF Len(imgs) = 0 THEN <<"Please upload images first">>
  ELSE IF Len(gts) = 0 THEN <<"Please upload ground truth annotations">>
  ELSE IF Len(imgs) # Len(gts) /\ ~(Len(imgs) < Len(gts))
       THEN <<"You uploaded", Len(imgs), "images but only have", Len(gts),
              "annotation sets.">>
  ELSE NoError

\* let actualGroundTruths = groundTruths; ... groundTruths.slice(0, images.length)
ActualGroundTruths(imgs, gts) ==
  IF Len(imgs) # Len(gts) /\ Len(imgs) < Len(gts)
  THEN SubSeq(gts, 1, Len(imgs))
  ELSE gts

\* setGroundTruths(actualGroundTruths) on truncation: the state after the checks
StoredGroundTruthsKept(imgs, gts) == gts
StoredGroundTruths(imgs, gts) == ActualGroundTruths(imgs, gts)

\* Math.ceil(images.length / BATCH_SIZE)
TotalBatches(n) == (n + BATCH_SIZE - 1) \div BATCH_SIZE
BatchStart(batchIndex) == batchIndex * BATCH_SIZE
BatchEndShort(batchIndex, n) == Min(BatchStart(batchIndex) + BATCH_SIZE - 1, n)
BatchEnd(batchIndex, n) == Min(BatchStart(batchIndex) + BATCH_SIZE, n)
BatchLength(batchIndex, n) == BatchEnd(batchIndex, n) - BatchStart(batchIndex)

\* batch.map((img) => processImageWithRetry(img)): every call issued at once
IssueBatch(batchIndex, n) ==
  [NoPromises EXCEPT ![Request(1)] = BatchLength(batchIndex, n)]

\* abortController.current?.signal.aborted
AbortSignalled == abortController # 0 /\ abortController \in aborted

\* the run an invocation of runEvaluation becomes
FreeRun(r) == runs[r].pc = "idle" /\ \A q \in 1..(r - 1) : runs[q].pc # "idle"

runEvaluationRejected ==
  /\ UploadStepShown
  /\ ValidationError(images, groundTruths) # NoError
  /\ error' = ValidationError(images, groundTruths)
  /\ UNCHANGED <<step, images, groundTruths, predictions, currentMetrics,
                 confidenceThreshold, iouThreshold, processingStatus,
                 abortController, aborted, runs, lastRun, libVars, authVars>>

runEvaluationStarts ==
  /\ UploadStepShown
  /\ ValidationError(images, groundTruths) = NoError
  /\ \E r \in 1..MaxRuns :
       /\ FreeRun(r)
       /\ LET n == Len(images)
          IN /\ groundTruths' = StoredGroundTruths(images, groundTruths)
             /\ step' = "processing"
             /\ error' = NoError
             /\ abortController' = r
             /\ processingStatus' =
                  [current |-> 0, total |-> n, percentage |-> Zero,
                   currentBatch |-> 1, totalBatches |-> TotalBatches(n),
                   estimatedTimeRemaining |-> 0, status |-> "processing",
                   message |-> <<"Processing batch", 1, TotalBatches(n),
                                 BatchLength(0, n)>>]
             /\ runs' = [runs EXCEPT ![r] =
                  [IdleRun EXCEPT
                     !.pc = "group",
                     !.images = images,
                     !.actualGroundTruths = ActualGroundTruths(images, groundTruths),
                     !.confidenceThreshold = confidenceThreshold,
                     !.iouThreshold = iouThreshold,
                     !.batchPromises = IssueBatch(0, n),
                     !.inputsHeld = TRUE,
                     !.reported = NoError]]
  /\ UNCHANGED <<images, predictions, currentMetrics, confidenceThreshold,
                 iouThreshold, aborted, lastRun, libVars, authVars>>

runEvaluation == runEvaluationRejected \/ runEvaluationStarts

\* the promises of a run that has ended are awaited by nobody: once settled
\* they are unreachable, and the model forgets them
Forgotten(run) ==
  IF run.pc = "done"
  THEN [run EXCEPT !.batchPromises = [@ EXCEPT ![Fulfilled] = 0, ![Rejected] = 0]]
  ELSE run

\* catch (err): the message surfaced by setError
CaughtMessageGeneric(message) == <<"Failed to run evaluation">>
CaughtMessage(message) == message

\* catch (err): what the failed run leaves published
CaughtPredictionsPartial(held, allPredictions) == allPredictions
CaughtPredictions(held, allPredictions) == held

\* the catch block of run r, whose locals are run
Caught(r, run, message, outcome) ==
  /\ error' = CaughtMessage(message)
  /\ processingStatus' =
       [processingStatus EXCEPT !.status = "error", !.message = CaughtMessage(message)]
  /\ step' = "upload"
  /\ predictions' = CaughtPredictions(predictions, run.allPredictions)
  /\ runs' = [runs EXCEPT ![r] =
       Forgotten([run EXCEPT !.pc = "done", !.outcome = outcome,
                             !.reported = CaughtMessage(message)])]
  /\ UNCHANGED <<images, groundTruths, currentMetrics, confidenceThreshold,
                 iouThreshold, abortController, aborted, lastRun, libVars, authVars>>

\* after await Promise.all(batchPromises) resolves: the results are added in
\* the order of the batch, the progress is updated, and after the last batch
\* the predictions and metrics are published
GroupResolved(r, run) ==
  LET n == Len(run.images)
      len == BatchLength(run.batchIndex, n)
      batchResults == [k \in 1..len |-> DetectionResult]
      all == run.allPredictions \o batchResults
      processedCount == run.processedCount + len
  IN IF run.batchIndex < TotalBatches(n) - 1
     THEN /\ \E avgTimePerImage \in SecondsPerImage :
               processingStatus' =
                 [current |-> processedCount, total |-> n,
                  percentage |-> Norm(processedCount * 100, n),
                  currentBatch |-> run.batchIndex + 1,
                  totalBatches |-> TotalBatches(n),
                  estimatedTimeRemaining |-> (n - processedCount) * avgTimePerImage,
                  status |-> "processing",
                  message |-> <<"Processed", processedCount, n>>]
          /\ runs' = [runs EXCEPT ![r] =
               [run EXCEPT !.pc = "delay", !.allPredictions = all,
                           !.processedCount = processedCount,
                           !.batchPromises = NoPromises]]
          /\ UNCHANGED <<step, images, groundTruths, predictions, currentMetrics,
                         confidenceThreshold, iouThreshold, error,
                         abortController, aborted, lastRun, libVars, authVars>>
     ELSE /\ predictions' = all
          /\ currentMetrics' =
               calculateMetricsInternal(all, run.actualGroundTruths,
                                        run.confidenceThreshold, run.iouThreshold)
          /\ processingStatus' =
               [current |-> n, total |-> n, percentage |-> Norm(100, 1),
                currentBatch |-> TotalBatches(n), totalBatches |-> TotalBatches(n),
                estimatedTimeRemaining |-> 0, status |-> "complete",
                message |-> <<"Evaluation complete!">>]
          /\ step' = "results"
          /\ runs' = [runs EXCEPT ![r] =
               [run EXCEPT !.pc = "done", !.outcome = "complete",
                           !.allPredictions = all,
                           !.processedCount = processedCount,
                           !.batchPromises = NoPromises]]
          /\ lastRun' =
               IF run.inputsHeld
               THEN [images |-> run.images, groundTruths |-> run.actualGroundTruths,
                     recomputed |-> FALSE]
               ELSE Null
          /\ UNCHANGED <<images, groundTruths, confidenceThreshold, iouThreshold,
                         error, abortController, aborted, libVars, authVars>>

\* a promise that nobody awaits any more, or that leaves others pending
Settles(r, run) ==
  /\ runs' = [runs EXCEPT ![r] = Forgotten(run)]
  /\ UNCHANGED <<step, images, groundTruths, predictions, currentMetrics,
                 confidenceThreshold, iouThreshold, processingStatus, error,
                 abortController, aborted, lastRun, libVars, authVars>>

\* detectObjectsAction answers { success: true } to attempt a of a call of run r
DetectSucceeds(r) ==
  \E a \in 1..RETRY_ATTEMPTS :
    /\ runs[r].batchPromises[Request(a)] > 0
    /\ LET run == [runs[r] EXCEPT !.batchPromises = Move(@, Request(a), Fulfilled)]
       IN IF run.pc = "group" /\ Outstanding(run.batchPromises) = 0
          THEN GroupResolved(r, run)
          ELSE Settles(r, run)

\* detectObjectsAction answers { success: false, error: e } to attempt a
DetectFails(r) ==
  \E a \in 1..RETRY_ATTEMPTS, e \in TransportErrors :
    /\ runs[r].batchPromises[Request(a)] > 0
    /\ LET next == AfterFailure(a)
           run == [runs[r] EXCEPT
                     !.batchPromises = Move(@, Request(a), next),
                     !.exhausted = IF next = Rejected /\ @ = NoError
                                   THEN ThrownMessage(e) ELSE @]
       IN IF next = Rejected /\ run.pc = "group"
          THEN Caught(r, run, ThrownMessage(e), "failed")
          ELSE Settles(r, run)

\* setTimeout(resolve, RETRY_DELAY) fires: the next attempt is issued
BackoffElapses(r) ==
  \E a \in 1..(RETRY_ATTEMPTS - 1) :
    /\ runs[r].batchPromises[Backoff(a)] > 0
    /\ Settles(r, [runs[r] EXCEPT
                         !.batchPromises = Move(@, Backoff(a), Request(a + 1))])

\* the delay between batches is over: the loop checks for abort and issues
\* the next batch
DelayElapses(r) ==
  /\ runs[r].pc = "delay"
  /\ LET batchIndex == runs[r].batchIndex + 1
         n == Len(runs[r].images)
     IN IF AbortSignalled
        THEN Caught(r, runs[r], <<"Evaluation cancelled">>, "cancelled")
        ELSE /\ processingStatus' =
                  [processingStatus EXCEPT
                     !.currentBatch = batchIndex + 1,
                     !.message = <<"Processing batch", batchIndex + 1,
                                   TotalBatches(n), BatchLength(batchIndex, n)>>]
             /\ runs' = [runs EXCEPT ![r] =
                  [@ EXCEPT !.pc = "group", !.batchIndex = batchIndex,
                            !.batchPromises = IssueBatch(batchIndex, n),
                            !.startedAfterCancel = @ \/ runs[r].cancelRequested]]
             /\ UNCHANGED <<step, images, groundTruths, predictions,
                            currentMetrics, confidenceThreshold, iouThreshold,
                            error, abortController, aborted, lastRun,
                            libVars, authVars>>

(***************************************************************************)
(* The other operations of the hook.                                       *)
(***************************************************************************)
InProgress(run) == run.pc \in {"group", "delay"}

\* Environment: the user picks files while no detection call is outstanding
\* and no run is in progress; cancelling, running again, changing the
\* thresholds and resetting are possible whenever the page offers them.
Quiescent ==
  \A r \in 1..MaxRuns : ~InProgress(runs[r]) /\ Outstanding(runs[r].batchPromises) = 0

\* the uploads replace the inputs the runs in progress started from
InputsReplaced ==
  [r \in 1..MaxRuns |->
     IF InProgress(runs[r]) THEN [runs[r] EXCEPT !.inputsHeld = FALSE] ELSE runs[r]]

handleImageUpload ==
  /\ UploadStepShown
  /\ Quiescent
  /\ \E n \in ImageCounts : images' = [k \in 1..n |-> k]
  /\ error' = NoError
  /\ runs' = InputsReplaced
  /\ lastRun' = Null
  /\ UNCHANGED <<step, groundTruths, predictions, currentMetrics,
                 confidenceThreshold, iouThreshold, processingStatus,
                 abortController, aborted, libVars, authVars>>

handleGroundTruthUpload ==
  /\ UploadStepShown
  /\ Quiescent
  /\ \/ /\ \E data \in GroundTruthFiles : groundTruths' = data
        /\ error' = NoError
        /\ runs' = InputsReplaced
        /\ lastRun' = Null
     \/ /\ error' = <<"Invalid ground truth format. Expected COCO format or array of annotations.">>
        /\ UNCHANGED <<groundTruths, runs, lastRun>>
  /\ UNCHANGED <<step, images, predictions, currentMetrics, confidenceThreshold,
                 iouThreshold, processingStatus, abortController, aborted,
                 libVars, authVars>>

cancelEvaluation ==
  /\ ProcessingStepShown
  /\ aborted' = IF abortController # 0 THEN aborted \cup {abortController} ELSE aborted
  /\ step' = "upload"
  /\ processingStatus' = initialProcessingStatus
  /\ runs' = [r \in 1..MaxRuns |->
       IF InProgress(runs[r]) THEN [runs[r] EXCEPT !.cancelRequested = TRUE]
       ELSE runs[r]]
  /\ UNCHANGED <<images, groundTruths, predictions, currentMetrics,
                 confidenceThreshold, iouThreshold, error, abortController,
                 lastRun, libVars, authVars>>

updateThresholds ==
  /\ UploadStepShown \/ ResultsShown
  /\ \E t \in ThresholdPairs :
       /\ confidenceThreshold' = t[1]
       /\ iouThreshold' = t[2]
       /\ IF Len(predictions) > 0 /\ Len(groundTruths) > 0
          THEN /\ currentMetrics' =
                    calculateMetricsInternal(predictions, groundTruths, t[1], t[2])
               /\ lastRun' = IF lastRun = Null THEN Null
                             ELSE [lastRun EXCEPT !.recomputed = TRUE]
          ELSE UNCHANGED <<currentMetrics, lastRun>>
  /\ UNCHANGED <<step, images, groundTruths, predictions, processingStatus, error,
                 abortController, aborted, runs, libVars, authVars>>

reset ==
  /\ ResultsShown
  /\ step' = "upload"
  /\ images' = <<>>
  /\ groundTruths' = <<>>
  /\ predictions' = <<>>
  /\ currentMetrics' = Null
  /\ processingStatus' = initialProcessingStatus
  /\ error' = NoError
  /\ runs' = InputsReplaced
  /\ lastRun' = Null
  /\ UNCHANGED <<confidenceThreshold, iouThreshold, abortController, aborted, libVars, authVars>>

\* the evaluations in IndexedDB: a run over MaxImages images saved after the
\* thresholds were set to 0.1 and 0.3
SavedEvaluations ==
  {[metrics |-> calculateMetricsInternal([k \in 1..MaxImages |-> DetectionResult],
                                         [k \in 1..MaxImages |-> GroundTruthOf(k)],
                                         1, 3),
    confidenceThreshold |-> 1,
    iouThreshold |-> 3]}

\* loadEvaluation(id), from the history list of the upload step; like the
\* uploads, the user opens a saved evaluation while nothing is in progress
loadEvaluation ==
  /\ UploadStepShown
  /\ Quiescent
  /\ \/ /\ \E evaluation \in SavedEvaluations :
             /\ currentMetrics' = evaluation.metrics
             /\ confidenceThreshold' = evaluation.confidenceThreshold
             /\ iouThreshold' = evaluation.iouThreshold
        /\ step' = "results"
        /\ UNCHANGED error
     \/ /\ error' = <<"Evaluation not found">>
        /\ UNCHANGED <<step, currentMetrics, confidenceThreshold, iouThreshold>>
  /\ UNCHANGED <<images, groundTruths, predictions, processingStatus,
                 abortController, aborted, runs, lastRun, libVars, authVars>>

Init ==
  /\ HookInit
  /\ libPredictions = <<>> /\ libGroundTruths = <<>> /\ libIouThreshold = DefaultThreshold
  /\ libDone = {} /\ libMatches = <<>> /\ libMetrics = Null
  /\ libIouThresholdAgain = 0 /\ libMatchesAgain = <<>> /\ libSweep = <<>>
  /\ libOptimal = Null /\ libIou = Null /\ libSplit = Null
  /\ AuthInit

Next ==
  \/ handleImageUpload
  \/ handleGroundTruthUpload
  \/ runEvaluation
  \/ cancelEvaluation
  \/ updateThresholds
  \/ reset
  \/ loadEvaluation
  \/ \E r \in 1..MaxRuns : DetectSucceeds(r)
  \/ \E r \in 1..MaxRuns : DetectFails(r)
  \/ \E r \in 1..MaxRuns : BackoffElapses(r)
  \/ \E r \in 1..MaxRuns : DelayElapses(r)

Spec == Init /\ [][Next]_vars

(***************************************************************************)
(* C2: when a detection call of a run fails on its last allowed attempt,   *)
(* the run ends as failed and the message of that last failure is the one  *)
(* surfaced by setError; that step publishes neither predictions nor       *)
(* metrics, and the run never reaches its success block.                   *)
(***************************************************************************)
C2_ExhaustedRetriesFail ==
  [][\A r \in 1..MaxRuns :
       /\ runs'[r].exhausted # NoError =>
            /\ runs'[r].pc = "done"
            /\ runs'[r].outcome = "failed"
            /\ runs'[r].reported = runs'[r].exhausted
       /\ (runs[r].exhausted = NoError /\ runs'[r].exhausted # NoError) =>
            /\ error' = runs'[r].exhausted
            /\ processingStatus'.status = "error"
            /\ UNCHANGED <<predictions, currentMetrics>>]_vars

\* a run has failed in its second group, on a failure without a message
C2_Witness ==
  \E r \in 1..MaxRuns :
    /\ runs[r].exhausted = <<"Failed to analyze image">>
    /\ runs[r].outcome = "failed"
    /\ runs[r].processedCount > 0
    /\ error = runs[r].exhausted

(***************************************************************************)
(* C3: the step in which a run completes publishes one prediction entry    *)
(* per image of the run, each the result of that image's detection call,   *)
(* and as many entries as ground-truth sets are used for the metrics.      *)
(* Every detection call resolves to the same empty array, so the order in  *)
(* which the calls of a group settle cannot show in the entries.           *)
(***************************************************************************)
C3_CompleteRunAligned ==
  [][\A r \in 1..MaxRuns :
       (runs[r].outcome # "complete" /\ runs'[r].outcome = "complete") =>
         /\ Len(predictions') = Len(runs[r].images)
         /\ \A k \in 1..Len(predictions') : predictions'[k] = DetectionResult
         /\ Len(predictions') = Len(runs[r].actualGroundTruths)]_vars

\* a run of several groups has completed and its results are shown
C3_Witness ==
  \E r \in 1..MaxRuns :
    /\ runs[r].outcome = "complete"
    /\ runs[r].batchIndex > 0
    /\ predictions = runs[r].allPredictions
    /\ step = "results"

(***************************************************************************)
(* C4: a run that is not awaiting a group (it is between two groups, or it *)
(* has ended with any outcome) has no detection call outstanding: it moved *)
(* on only after every call of the group, retries included, had settled.   *)
(***************************************************************************)
C4_MovesOnAfterAllSettled ==
  \A r \in 1..MaxRuns :
    runs[r].pc \in {"delay", "done"} => Outstanding(runs[r].batchPromises) = 0

(***************************************************************************)
(* C5: the detection calls started and not yet settled, those waiting out  *)
(* a retry backoff included, are never more than BATCH_SIZE.               *)
(***************************************************************************)
TotalOutstanding ==
  Sum([r \in 1..MaxRuns |-> Outstanding(runs[r].batchPromises)])

C5_OutstandingBounded == TotalOutstanding <= BATCH_SIZE

(***************************************************************************)
(* C6: a run during which cancelEvaluation was called starts no group      *)
(* after the request, whatever happens afterwards.                         *)
(***************************************************************************)
C6_CancelHonouredAtBoundary ==
  \A r \in 1..MaxRuns : runs[r].cancelRequested => ~runs[r].startedAfterCancel

(***************************************************************************)
(* C7: no step of a run that ends cancelled or failed (its start, the      *)
(* settling of its calls, the end of its groups, its end) changes the      *)
(* published predictions or currentMetrics: the run leaves them as they    *)
(* were when it started, the results of its completed groups discarded.    *)
(***************************************************************************)
RunStep(r) ==
  runs'[r].pc # runs[r].pc \/ runs'[r].batchPromises # runs[r].batchPromises

C7_UnsuccessfulRunPublishesNothing ==
  [][\A r \in 1..MaxRuns :
       (RunStep(r) /\ runs'[r].outcome # "complete")
         => UNCHANGED <<predictions, currentMetrics>>]_vars

\* a run has failed and another was cancelled, each after a completed group
C7_Witness ==
  \E r, q \in 1..MaxRuns :
    /\ runs[r].outcome = "failed" /\ runs[r].processedCount > 0
    /\ runs[q].outcome = "cancelled" /\ runs[q].processedCount > 0

(***************************************************************************)
(* C8: runEvaluation with more images than ground-truth sets reports an    *)
(* error and starts nothing: no run leaves its idle position (no detection *)
(* call is issued), the step stays "upload", and the processing status,    *)
(* the predictions and the metrics are unchanged.                          *)
(***************************************************************************)
C8_MoreImagesThanGroundTruths ==
  [][(runEvaluation /\ Len(images) > Len(groundTruths)) =>
       /\ error' # NoError
       /\ step = "upload" /\ step' = "upload"
       /\ UNCHANGED <<processingStatus, predictions, currentMetrics, runs>>]_vars

\* the mismatch was reported: five images, two annotation sets
C8_Witness ==
  /\ Len(images) > Len(groundTruths)
  /\ Len(groundTruths) > 0
  /\ error = <<"You uploaded", Len(images), "images but only have",
               Len(groundTruths), "annotation sets.">>
  /\ \A r \in 1..MaxRuns : runs[r].pc = "idle"

(***************************************************************************)
(* C9: after a run whose inputs are still held, updateThresholds with      *)
(* thresholds (c, i) publishes the metrics a full run with thresholds      *)
(* (c, i) publishes over the same images, ground truth and detector        *)
(* answers.  That two recomputations with the same inputs agree holds of   *)
(* any operator, calculateMetricsInternal reading nothing but its          *)
(* arguments.                                                              *)
(***************************************************************************)
\* what a run over these inputs publishes on completion
FullRun(imgs, gts, confThreshold, iouThresh) ==
  calculateMetricsInternal([k \in 1..Len(imgs) |-> DetectionResult],
                           ActualGroundTruths(imgs, gts), confThreshold, iouThresh)

C9_RecomputeEqualsFullRun ==
  [][(updateThresholds /\ lastRun # Null) =>
       currentMetrics' = FullRun(lastRun.images, lastRun.groundTruths,
                                 confidenceThreshold', iouThreshold')]_vars

\* the metrics were recomputed after a run, with thresholds other than the defaults
C9_Witness ==
  /\ lastRun # Null
  /\ lastRun.recomputed
  /\ step = "results"
  /\ <<confidenceThreshold, iouThreshold>> # <<DefaultThreshold, DefaultThreshold>>
  /\ currentMetrics # Null

(***************************************************************************)
(* C11: for the same predictions and ground truths and thresholds          *)
(* t1 <= t2, matchPredictions with iouThreshold t2 marks at most as many   *)
(* predictions correct as it does with t1.                                 *)
(***************************************************************************)
\* matches.filter((m) => m.isCorrect).length
TruePositivesOf(matches) ==
  Cardinality({k \in 1..Len(matches) : matches[k].isCorrect})

C11_MonotonicInIouThreshold ==
  ("matchPredictionsAgain" \in libDone /\ libIouThreshold <= libIouThresholdAgain)
    => TruePositivesOf(libMatchesAgain) <= TruePositivesOf(libMatches)

\* at the higher threshold a prediction is correct that was not at the lower
\* one, its box having been taken there by a prediction of higher confidence
C11_Witness ==
  /\ "matchPredictionsAgain" \in libDone
  /\ libIouThreshold < libIouThresholdAgain
  /\ \E k \in 1..Len(libMatches) :
       libMatchesAgain[k].isCorrect /\ ~libMatches[k].isCorrect

(***************************************************************************)
(* C12: in the sweep of calculateMetricsAtThresholds over the default      *)
(* confidence thresholds, for c1 <= c2 the recall reported at c2 is at     *)
(* most the recall reported at c1.                                         *)
(***************************************************************************)
C12_RecallMonotonicInConfidence ==
  "calculateMetricsAtThresholds" \in libDone =>
    \A j, k \in 1..Len(libSweep) :
      libSweep[j].threshold <= libSweep[k].threshold
        => RGeq(libSweep[j].recall, libSweep[k].recall)

\* the recall falls along the sweep, from 1 to a positive value, when a
\* correct prediction stops surviving the filter
C12_Witness ==
  /\ "calculateMetricsAtThresholds" \in libDone
  /\ \E j, k \in 1..Len(libSweep) :
       /\ j < k
       /\ libSweep[j].recall = One
       /\ RGt(libSweep[j].recall, libSweep[k].recall)
       /\ RGt(libSweep[k].recall, Zero)

(***************************************************************************)
(* C13: a run has one terminal outcome, which never changes once reached,  *)
(* and a run that has reached it, or during which cancelEvaluation has put *)
(* the page back to idle, changes the exposed step and processing status   *)
(* no more.                                                                *)
(***************************************************************************)
C13_RunStateMachine ==
  [][\A r \in 1..MaxRuns :
       /\ runs[r].outcome # "none" => runs'[r].outcome = runs[r].outcome
       /\ ((runs[r].pc = "done" \/ runs[r].cancelRequested) /\ RunStep(r))
            => UNCHANGED <<step, processingStatus>>]_vars

(***************************************************************************)
(* C14: the step in which a run ends cancelled exposes neither the status  *)
(* nor the error that the end of a run failed on exhausted retries         *)
(* exposes.                                                                *)
(***************************************************************************)
\* what the catch block exposes for a call that exhausted its retries
FailedStatus == "error"
FailedErrors == {CaughtMessage(ThrownMessage(e)) : e \in TransportErrors}

C14_CancelledDistinctFromFailed ==
  [][\A r \in 1..MaxRuns :
       (runs[r].outcome = "none" /\ runs'[r].outcome = "cancelled") =>
         /\ processingStatus'.status # FailedStatus
         /\ error' \notin FailedErrors]_vars

(***************************************************************************)
(* C15: a run started with fewer images than ground-truth sets uses the    *)
(* first Len(images) sets, in their order, and tells the caller of the     *)
(* truncation: what it exposes through error or the processing status      *)
(* message is not what a start without truncation exposes.                 *)
(***************************************************************************)
\* the run that this step starts
Started(r) == runs[r].pc = "idle" /\ runs'[r].pc # "idle"

UsesFirstGroundTruths(r) ==
  /\ Len(runs'[r].actualGroundTruths) = Len(images)
  /\ \A k \in 1..Len(images) : runs'[r].actualGroundTruths[k] = groundTruths[k]

TruncationSignalled ==
  \/ error' # NoError
  \/ processingStatus'.message #
       <<"Processing batch", 1, TotalBatches(Len(images)), BatchLength(0, Len(images))>>

C15_TruncatesAndSignals ==
  [][\A r \in 1..MaxRuns :
       (Started(r) /\ Len(images) < Len(groundTruths))
         => (UsesFirstGroundTruths(r) /\ TruncationSignalled)]_vars

(***************************************************************************)
(* C16: when a run fails because a detection call exhausted its retries,   *)
(* the failure reported to the caller carries the transport's message and  *)
(* names the index of the image whose call failed.  A message is a text    *)
(* followed by the numbers it mentions, as in the processing status        *)
(* message.                                                                *)
(***************************************************************************)
FailsNow(r) == runs[r].outcome = "none" /\ runs'[r].outcome = "failed"

CarriesTransportMessage(r) ==
  /\ error' # NoError
  /\ Head(error') = Head(runs'[r].exhausted)

IdentifiesImage(r) ==
  /\ Len(error') > 1
  /\ error'[2] \in 1..Len(runs[r].images)

C16_FailureNamesImage ==
  [][\A r \in 1..MaxRuns :
       FailsNow(r) => (CarriesTransportMessage(r) /\ IdentifiesImage(r))]_vars

(***************************************************************************)
(* C17: findOptimalThreshold returns the threshold of the default 9-point  *)
(* sweep whose F1 is maximal, the first one when several tie, and          *)
(* threshold 0.5 with F1 0 when no sweep point has an F1 above 0.          *)
(***************************************************************************)
C17_OptimalIsFirstMaximalF1 ==
  "findOptimalThreshold" \in libDone =>
    IF \A k \in 1..Len(libSweep) : ~RGt(libSweep[k].f1Score, Zero)
    THEN libOptimal.threshold = 5 /\ libOptimal.f1Score = Zero
    ELSE \E k \in 1..Len(libSweep) :
           /\ libOptimal.threshold = libSweep[k].threshold
           /\ libOptimal.f1Score = libSweep[k].f1Score
           /\ \A j \in 1..Len(libSweep) :
                RGeq(libSweep[k].f1Score, libSweep[j].f1Score)
           /\ \A j \in 1..(k - 1) :
                RGt(libSweep[k].f1Score, libSweep[j].f1Score)

\* the F1 rises along the sweep, the maximum is reached at threshold 0.6 and
\* kept up to 0.9: the first of the tied points is returned
C17_Witness ==
  /\ "findOptimalThreshold" \in libDone
  /\ Len(libSweep) = 9
  /\ libOptimal.threshold = 6
  /\ RGt(libOptimal.f1Score, libSweep[5].f1Score)
  /\ RGt(libSweep[5].f1Score, Zero)
  /\ libSweep[9].f1Score = libOptimal.f1Score

(***************************************************************************)
(* C18: no box of non-positive width or height, or of non-finite           *)
(* coordinates, takes part in matching: every ground-truth box and every   *)
(* prediction that a completing run hands to matchPredictions is valid.    *)
(***************************************************************************)
\* isValidBox; the coordinates of the model's boxes are integers, so typeof
\* is "number" and isNaN is false for all of them
isValidBox(box) == box.width > 0 /\ box.height > 0

CompletesNow(r) == runs[r].outcome = "none" /\ runs'[r].outcome = "complete"

\* allGts and allPreds of calculateMetricsInternal at the end of run r
MatchedGroundTruths(r) == Flat(runs[r].actualGroundTruths)
MatchedPredictions(r) == Flat(runs'[r].allPredictions)

C18_OnlyValidBoxesMatched ==
  [][\A r \in 1..MaxRuns :
       CompletesNow(r) =>
         /\ \A k \in 1..Len(MatchedGroundTruths(r)) :
              isValidBox(MatchedGroundTruths(r)[k])
         /\ \A k \in 1..Len(MatchedPredictions(r)) :
              isValidBox(MatchedPredictions(r)[k])]_vars

(***************************************************************************)
(* C19: for every box a that reaches calculateIoU, calculateIoU(a, a) is   *)
(* 1.                                                                      *)
(***************************************************************************)
C19_IoUWithItselfIsOne ==
  "calculateIoU" \in libDone => libIou.iou = One

(***************************************************************************)
(* C20: in matchPredictions, for every iouThreshold (0 included), a        *)
(* prediction is a true positive exactly when some not yet used            *)
(* ground-truth box of its class exists and the maximal IoU over those     *)
(* boxes is at least iouThreshold; it is then bound to a box of that       *)
(* maximal IoU, which becomes used; otherwise it is a false positive       *)
(* without ground-truth reference.                                         *)
(***************************************************************************)
\* the ground truths used by the matches before the k-th
UsedBefore(matches, k) ==
  {matches[j].groundTruth : j \in {i \in 1..(k - 1) : matches[i].isCorrect}}

\* the not yet used ground truths of the class of the k-th match's prediction
Candidates(matches, gts, k) ==
  {i \in 1..Len(gts) :
     /\ i \notin UsedBefore(matches, k)
     /\ gts[i].class = matches[k].prediction.class}

IsMaximal(prediction, gts, candidates, i) ==
  \A j \in candidates :
    RGeq(calculateIoU(prediction, gts[i]),
         calculateIoU(prediction, gts[j]))

C20_TruePositiveIffMaxIoUMeetsThreshold ==
  "matchPredictions" \in libDone =>
    \A k \in 1..Len(libMatches) :
      LET prediction == libMatches[k].prediction
          candidates == Candidates(libMatches, libGroundTruths, k)
          expected ==
            \E i \in candidates :
              /\ IsMaximal(prediction, libGroundTruths, candidates, i)
              /\ RGeq(calculateIoU(prediction, libGroundTruths[i]),
                      Tenths(libIouThreshold))
      IN /\ libMatches[k].isCorrect <=> expected
         /\ libMatches[k].isCorrect =>
              /\ libMatches[k].groundTruth \in candidates
              /\ IsMaximal(prediction, libGroundTruths, candidates,
                           libMatches[k].groundTruth)
         /\ ~libMatches[k].isCorrect => libMatches[k].groundTruth = NoRef

(***************************************************************************)
(* C21: matchPredictions considers the predictions by descending           *)
(* confidence, those of equal confidence in their original order; a        *)
(* matched prediction takes the unused ground-truth box of its class of    *)
(* the highest IoU, the earliest-indexed one on a tie, and a box taken is  *)
(* not available to a later prediction.                                    *)
(***************************************************************************)
\* the predictions in the order matchPredictions considered them
ConsideredOrder(matches) == [k \in 1..Len(matches) |-> matches[k].prediction]

\* the predictions of sequence s whose confidence is c, in their order in s
OfConfidence(s, c) ==
  LET Has(p) == ConfOf(p) = c
  IN SelectSeq(s, Has)

C21_OrderAndTieBreak ==
  "matchPredictions" \in libDone =>
    LET considered == ConsideredOrder(libMatches)
    IN /\ Len(considered) = Len(libPredictions)
       /\ \A k \in 1..(Len(considered) - 1) :
            ConfOf(considered[k]) >= ConfOf(considered[k + 1])
       /\ \A c \in 0..10 :
            OfConfidence(considered, c) = OfConfidence(libPredictions, c)
       /\ \A k \in 1..Len(libMatches) :
            libMatches[k].isCorrect =>
              LET candidates == Candidates(libMatches, libGroundTruths, k)
                  taken == libMatches[k].groundTruth
              IN /\ taken \in candidates
                 /\ IsMaximal(considered[k], libGroundTruths, candidates, taken)
                 /\ \A j \in candidates :
                      j < taken =>
                        RGt(calculateIoU(considered[k], libGroundTruths[taken]),
                            calculateIoU(considered[k], libGroundTruths[j]))
       /\ \A j, k \in 1..Len(libMatches) :
            (j < k /\ libMatches[j].isCorrect /\ libMatches[k].isCorrect)
              => libMatches[j].groundTruth # libMatches[k].groundTruth

\* the third prediction is considered first, the two others have the same
\* confidence and keep their order; two equal ground truths tie and the
\* first is taken, the second by a later prediction
C21_Witness ==
  /\ "matchPredictions" \in libDone
  /\ Len(libMatches) = 3 /\ Len(libGroundTruths) = 2
  /\ libMatches[1].prediction = libPredictions[3]
  /\ libMatches[2].prediction = libPredictions[1]
  /\ libMatches[2].prediction # libMatches[3].prediction
  /\ ConfOf(libMatches[2].prediction) = ConfOf(libMatches[3].prediction)
  /\ ConfOf(libMatches[1].prediction) > ConfOf(libMatches[2].prediction)
  /\ libGroundTruths[1] = libGroundTruths[2]
  /\ libMatches[1].isCorrect /\ libMatches[1].groundTruth = 1
  /\ libMatches[2].isCorrect /\ libMatches[2].groundTruth = 2

(***************************************************************************)
(* C22: for every class of the result of calculateOverallMetrics,          *)
(* truePositives + falsePositives is the number of predictions of the      *)
(* class, truePositives + falseNegatives is sampleCount, the number of     *)
(* ground-truth boxes of the class, and falseNegatives is the number of    *)
(* those boxes that the matcher left unused.                               *)
(***************************************************************************)
\* the boxes of sequence s whose class is c
OfClass(s, c) ==
  LET IsClass(b) == b.class = c
  IN SelectSeq(s, IsClass)

\* the positions in gts that no correct match of matches references
LeftUnused(gts, matches) ==
  {i \in 1..Len(gts) :
     \A k \in 1..Len(matches) :
       ~(matches[k].isCorrect /\ matches[k].groundTruth = i)}

CountsAddUp(cm, classPreds, classGts, iouThresh) ==
  /\ cm.truePositives + cm.falsePositives = Len(classPreds)
  /\ cm.truePositives + cm.falseNegatives = cm.sampleCount
  /\ cm.sampleCount = Len(classGts)
  /\ cm.falseNegatives =
       Cardinality(LeftUnused(classGts, matchPredictions(classPreds, classGts, iouThresh)))

C22_ClassCountsAddUp ==
  "calculateOverallMetrics" \in libDone =>
    \A k \in 1..Len(libMetrics.classMetrics) :
      CountsAddUp(libMetrics.classMetrics[k],
                  OfClass(libPredictions, libMetrics.classMetrics[k].className),
                  OfClass(libGroundTruths, libMetrics.classMetrics[k].className),
                  libIouThreshold)

\* a class with a true positive, a false positive and a false negative
C22_Witness ==
  /\ "calculateOverallMetrics" \in libDone
  /\ \E k \in 1..Len(libMetrics.classMetrics) :
       /\ libMetrics.classMetrics[k].truePositives > 0
       /\ libMetrics.classMetrics[k].falsePositives > 0
       /\ libMetrics.classMetrics[k].falseNegatives > 0

(***************************************************************************)
(* C23: within a run the detection of an image is attempted at most 2      *)
(* times: a second attempt is made only after the first one failed and     *)
(* the backoff delay has passed, and no attempt follows a success.  An     *)
(* attempt is one call of detectObjectsAction by processImageWithRetry.    *)
(* In terms of the calls of a group: a second attempt starts only by a     *)
(* backoff ending; a backoff starts only by a first attempt ending         *)
(* without success; first attempts start only with a new group, for its    *)
(* own images; the end of a second attempt starts nothing; and the number  *)
(* of unsettled calls grows only with a new group.                         *)
(***************************************************************************)
\* the step gives run r the promises of a group just issued
NewGroup(r) ==
  /\ runs'[r].batchPromises =
       IssueBatch(runs'[r].batchIndex, Len(runs'[r].images))
  /\ runs[r].pc = "idle" \/ runs'[r].batchIndex = runs[r].batchIndex + 1

AttemptsInOrder(r) ==
  LET b == runs[r].batchPromises
      c == runs'[r].batchPromises
  IN /\ c[Request(2)] > b[Request(2)] =>
          /\ c[Request(2)] = b[Request(2)] + 1
          /\ c[Backoff(1)] = b[Backoff(1)] - 1
     /\ c[Backoff(1)] > b[Backoff(1)] =>
          /\ c[Backoff(1)] = b[Backoff(1)] + 1
          /\ c[Request(1)] = b[Request(1)] - 1
          /\ c[Fulfilled] <= b[Fulfilled]
     /\ c[Request(1)] > b[Request(1)] => NewGroup(r)
     /\ c[Request(2)] < b[Request(2)] =>
          \A s \in Unsettled : c[s] <= b[s]
     /\ Outstanding(c) > Outstanding(b) => NewGroup(r)
     /\ \A s \in Unsettled : s \notin {Request(1), Backoff(1), Request(2)} => c[s] = 0

C23_AtMostTwoAttempts ==
  [][\A r \in 1..MaxRuns : AttemptsInOrder(r)]_vars

\* a second attempt is in flight beside a call that succeeded at once and a
\* call still waiting for its backoff
C23_Witness ==
  \E r \in 1..MaxRuns :
    /\ runs[r].batchPromises[Request(2)] > 0
    /\ runs[r].batchPromises[Fulfilled] > 0
    /\ runs[r].batchPromises[Backoff(1)] > 0

(***************************************************************************)
(* C24: the confusion matrix of calculateOverallMetrics is square over     *)
(* classNames; every entry off the diagonal is 0 and the diagonal entry    *)
(* of a class is the truePositives of that class in classMetrics, though   *)
(* the matrix comes from one matching over all classes and classMetrics    *)
(* from one matching per class.                                            *)
(***************************************************************************)
C24_ConfusionMatrixDiagonal ==
  "calculateOverallMetrics" \in libDone =>
    LET n == Len(libMetrics.classNames)
    IN /\ Len(libMetrics.confusionMatrix) = n
       /\ Len(libMetrics.classMetrics) = n
       /\ \A a \in 1..n :
            /\ Len(libMetrics.confusionMatrix[a]) = n
            /\ libMetrics.classMetrics[a].className = libMetrics.classNames[a]
            /\ libMetrics.confusionMatrix[a][a] =
                 libMetrics.classMetrics[a].truePositives
            /\ \A p \in 1..n :
                 a # p => libMetrics.confusionMatrix[a][p] = 0

\* three classes, the true positive in the second of them, and a false
\* positive of that class beside it
C24_Witness ==
  /\ "calculateOverallMetrics" \in libDone
  /\ Len(libMetrics.classNames) = 3
  /\ libMetrics.confusionMatrix[2][2] = 1
  /\ libMetrics.classMetrics[2].falsePositives = 1

(***************************************************************************)
(* C25: during a run progress is reported after every completed group,     *)
(* with consistent counters: current is the number of images of the        *)
(* groups completed so far, it never decreases and never exceeds total;    *)
(* currentBatch never exceeds totalBatches = ceil(total / BATCH_SIZE); a   *)
(* completed run reports current = total, percentage 100 and no time       *)
(* remaining.  The runs meant are those not cancelled.                     *)
(***************************************************************************)
\* the step ends a group of run r
GroupCompletes(r) == runs'[r].processedCount > runs[r].processedCount

\* the images of the groups of a run up to group batchIndex
ImagesUpTo(batchIndex, n) == Min((batchIndex + 1) * BATCH_SIZE, n)

ConsistentCounters(status) ==
  /\ status.current <= status.total
  /\ status.currentBatch <= status.totalBatches
  /\ status.totalBatches * BATCH_SIZE >= status.total
  /\ (status.totalBatches - 1) * BATCH_SIZE < status.total \/ status.total = 0

C25_ProgressConsistent ==
  [][\A r \in 1..MaxRuns :
       (~runs[r].cancelRequested /\ GroupCompletes(r)) =>
         /\ processingStatus'.current = runs'[r].processedCount
         /\ processingStatus'.current =
              ImagesUpTo(runs[r].batchIndex, Len(runs[r].images))
         /\ processingStatus'.total = Len(runs[r].images)
         /\ processingStatus'.current >= processingStatus.current
         /\ ConsistentCounters(processingStatus')
         /\ CompletesNow(r) =>
              /\ processingStatus'.current = processingStatus'.total
              /\ processingStatus'.percentage = Norm(100, 1)
              /\ processingStatus'.estimatedTimeRemaining = 0]_vars

(***************************************************************************)
(* The AuthService and detectObjectsWithRetry.  Each request runs up to    *)
(* its next await in one step; a fetch of a token and a POST of an image   *)
(* settle whenever the backend answers.                                    *)
(***************************************************************************)
\* if (this.accessToken && this.tokenExpiry && this.tokenExpiry > Date.now())
HasCachedToken(token, fresh) == token # 0 /\ fresh

\* if (this.tokenPromise)
RefreshInFlight(promise) == promise # 0

\* getToken() called by request c up to its await, on the service's fields
\* token, fresh and promise as they are at the call
getToken(c, retryCount, token, fresh, promise) ==
  IF HasCachedToken(token, fresh)
  THEN /\ requests' = [requests EXCEPT ![c] =
            [pc |-> "posting", retryCount |-> retryCount, awaits |-> 0,
             token |-> token]]
       /\ tokenPromise' = promise
       /\ UNCHANGED <<fetches, lastFetch>>
  ELSE IF RefreshInFlight(promise)
  THEN /\ requests' = [requests EXCEPT ![c] =
            [pc |-> "awaiting", retryCount |-> retryCount, awaits |-> promise,
             token |-> 0]]
       /\ tokenPromise' = promise
       /\ UNCHANGED <<fetches, lastFetch>>
  ELSE /\ lastFetch < MaxFetches
       /\ lastFetch' = lastFetch + 1
       /\ fetches' = fetches \cup {lastFetch + 1}
       /\ tokenPromise' = lastFetch + 1
       /\ requests' = [requests EXCEPT ![c] =
            [pc |-> "awaiting", retryCount |-> retryCount,
             awaits |-> lastFetch + 1, token |-> 0]]

\* detectObjectsWithRetry(formData) is called: await authService.getToken()
StartRequest(c) ==
  /\ requests[c].pc = "idle"
  /\ getToken(c, 0, accessToken, tokenFresh, tokenPromise)
  /\ UNCHANGED <<accessToken, tokenFresh, hookVars, libVars>>

\* fetchToken of fetch f succeeds: the token is cached, the promise resolves
\* for every request awaiting it, and getToken's finally clears tokenPromise
FetchResolves(f) ==
  /\ f \in fetches
  /\ fetches' = fetches \ {f}
  /\ accessToken' = f
  /\ tokenFresh' = TRUE
  /\ tokenPromise' = 0
  /\ requests' = [c \in 1..MaxRequests |->
       IF requests[c].pc = "awaiting" /\ requests[c].awaits = f
       THEN [requests[c] EXCEPT !.pc = "posting", !.awaits = 0, !.token = f]
       ELSE requests[c]]
  /\ UNCHANGED <<lastFetch, hookVars, libVars>>

\* fetchToken of fetch f throws "Authentication failed"
FetchFails(f) ==
  /\ f \in fetches
  /\ fetches' = fetches \ {f}
  /\ tokenPromise' = 0
  /\ requests' = [c \in 1..MaxRequests |->
       IF requests[c].pc = "awaiting" /\ requests[c].awaits = f
       THEN [requests[c] EXCEPT !.pc = "done", !.awaits = 0]
       ELSE requests[c]]
  /\ UNCHANGED <<accessToken, tokenFresh, lastFetch, hookVars, libVars>>

\* the prediction endpoint answers 401 to a request that has not retried:
\* authService.clearToken(), then detectObjectsWithRetry(formData, retryCount + 1)
PostUnauthorized(c) ==
  /\ requests[c].pc = "posting"
  /\ requests[c].retryCount < 1
  /\ accessToken' = 0
  /\ tokenFresh' = FALSE
  /\ getToken(c, requests[c].retryCount + 1, 0, FALSE, 0)
  /\ UNCHANGED <<hookVars, libVars>>

\* the prediction endpoint answers anything else, or 401 to the retry
PostSettles(c) ==
  /\ requests[c].pc = "posting"
  /\ requests' = [requests EXCEPT ![c].pc = "done"]
  /\ UNCHANGED <<accessToken, tokenFresh, tokenPromise, fetches, lastFetch,
                 hookVars, libVars>>

\* time passes: tokenExpiry is no longer ahead of Date.now()
TokenExpires ==
  /\ tokenFresh
  /\ tokenFresh' = FALSE
  /\ UNCHANGED <<accessToken, tokenPromise, fetches, lastFetch, requests,
                 hookVars, libVars>>

InitAuth == Init
NextAuth ==
  \/ \E c \in 1..MaxRequests : StartRequest(c)
  \/ \E f \in 1..MaxFetches : FetchResolves(f)
  \/ \E f \in 1..MaxFetches : FetchFails(f)
  \/ \E c \in 1..MaxRequests : PostUnauthorized(c)
  \/ \E c \in 1..MaxRequests : PostSettles(c)
  \/ TokenExpires
SpecAuth == InitAuth /\ [][NextAuth]_vars

(***************************************************************************)
(* C26: under any interleaving of the getToken and clearToken calls of     *)
(* concurrent detection requests at most one fetch of a token is in        *)
(* flight, and a request that asks for a token while a refresh is in       *)
(* flight awaits that refresh.                                             *)
(***************************************************************************)
C26_SingleTokenFetch ==
  /\ Cardinality(fetches) <= 1
  /\ \A c \in 1..MaxRequests :
       requests[c].pc = "awaiting" => requests[c].awaits \in fetches

(***************************************************************************)
(* C27: once cancelEvaluation has been called while a run was in progress, *)
(* in whichever group, no later step of that run publishes predictions or  *)
(* metrics or moves the step to "results".                                 *)
(***************************************************************************)
C27_CancelledRunNeverPublishes ==
  [][\A r \in 1..MaxRuns :
       (runs[r].cancelRequested /\ RunStep(r)) =>
         /\ UNCHANGED <<predictions, currentMetrics>>
         /\ step' = "results" => step = "results"]_vars

(***************************************************************************)
(* C28: in the metrics of a batch run a prediction made for an image is a  *)
(* true positive only against a ground-truth box of the same image.  So    *)
(* the true positives of a class are at most the pairs of a counted        *)
(* prediction and a ground-truth box of that class that the images offer,  *)
(* each image on its own.                                                  *)
(***************************************************************************)
\* the predictions of an image that the confidence filter keeps
Counted(imagePredictions, confThreshold) ==
  LET Survives(p) == ConfOf(p) >= confThreshold
  IN SelectSeq(imagePredictions, Survives)

\* the most pairs of class c that matching image by image can make
SameImagePairs(c, predsByImage, gtsByImage, confThreshold) ==
  Sum([img \in 1..Len(predsByImage) |->
         Min(Len(OfClass(Counted(predsByImage[img], confThreshold), c)),
             Len(OfClass(gtsByImage[img], c)))])

C29_MetricsMatchHeldInputs ==
  currentMetrics # Null =>
    currentMetrics = calculateOverallMetrics(Counted(Flat(predictions), confidenceThreshold),
                                             Flat(groundTruths), iouThreshold)

(***************************************************************************)
(* C30: if every detection call eventually settles, every started run      *)
(* eventually reaches a terminal outcome (complete, failed or cancelled).  *)
(* Shown by a variant: a run in progress waits for nothing but a           *)
(* detection call, a backoff or the delay between two groups; each of its  *)
(* steps lowers StepsLeft, which is never negative and which no other      *)
(* step raises; and it stops being in progress only with a terminal        *)
(* outcome.  So a run that stays in progress forever waits forever for a   *)
(* call that does not settle.                                              *)
(***************************************************************************)
\* the steps a call in state s can still take before it has settled
CallStepsLeft(s) ==
  IF s[1] = "request" THEN 2 * (RETRY_ATTEMPTS - s[2]) + 1
  ELSE IF s[1] = "backoff" THEN 2 * (RETRY_ATTEMPTS - s[2])
  ELSE 0

RECURSIVE GroupStepsLeft(_, _)
GroupStepsLeft(promises, S) ==
  IF S = {} THEN 0
  ELSE LET s == CHOOSE x \in S : TRUE
       IN promises[s] * CallStepsLeft(s) + GroupStepsLeft(promises, S \ {s})

\* the most steps a whole group and the delay after it can take
StepsPerGroup == BATCH_SIZE * (2 * RETRY_ATTEMPTS - 1) + 2

\* a bound on the steps a run can still take
StepsLeft(run) ==
  IF ~InProgress(run) THEN 0
  ELSE (TotalBatches(Len(run.images)) - run.batchIndex - 1) * StepsPerGroup
       + (IF run.pc = "group"
          THEN GroupStepsLeft(run.batchPromises, Unsettled) + 1
          ELSE 0)

\* what a run in progress waits for
AwaitsCallOrTimer(run) ==
  \/ run.pc = "group" /\ Outstanding(run.batchPromises) > 0
  \/ run.pc = "delay"

C30_RunsTerminate ==
  [][\A r \in 1..MaxRuns :
       /\ InProgress(runs'[r]) =>
            /\ AwaitsCallOrTimer(runs'[r])
            /\ StepsLeft(runs'[r]) >= 0
       /\ InProgress(runs[r]) =>
            /\ StepsLeft(runs'[r]) <= StepsLeft(runs[r])
            /\ RunStep(r) => StepsLeft(runs'[r]) < StepsLeft(runs[r])
            /\ ~InProgress(runs'[r]) =>
                 runs'[r].outcome \in {"complete", "failed", "cancelled"}]_vars

\* every step was taken: a run has completed its two groups and another
\* has failed, both with no step left
C30_Witness ==
  \E r, q \in 1..MaxRuns :
    /\ runs[r].outcome = "complete" /\ runs[r].batchIndex > 0
    /\ runs[q].outcome = "failed"
    /\ StepsLeft(runs[r]) = 0 /\ StepsLeft(runs[q]) = 0

====
